---- MODULE Spec2Model ----
(***************************************************************************)
(* downurl.py: read a file of URLs, download each one to                   *)
(* output/<host>/js/<filename>, write output/report.txt and pack the       *)
(* output directory into output/output.tar.gz.                             *)
(*                                                                         *)
(* Text is modelled as a sequence of characters, a character being a       *)
(* one-element string token.  "U+00E9" and "U+00B2" are the non-ASCII      *)
(* letter e-acute and the non-ASCII digit superscript-two.                 *)
(***************************************************************************)
EXTENDS Integers, Sequences, FiniteSets, TLC

VARIABLES
    pc,        \* position in the program
    arg,       \* what sys.argv[1] is: "missing", "notfile" or "file"
    lines,     \* the lines of the input file
    urls,      \* main's urls
    idx,       \* 1-based position of the for loop in urls
    results,   \* main's results
    outcomes,  \* history: what each download_file call met (response, exception)
    dirs,      \* filesystem: the directories, as resolved paths below the cwd
    files,     \* filesystem: resolved path -> content
    fs0,       \* history: the filesystem when the process started
    fn_url,    \* the argument of a filename_from_url call checked on its own
    fn_out     \* its result

vars == <<pc, arg, lines, urls, idx, results, outcomes, dirs, files, fs0, fn_url, fn_out>>


(***************************************************************************)
(* Bounds of the model.                                                    *)
(***************************************************************************)
MaxLines == 2
MaxSegLen == 3

(***************************************************************************)
(* Characters.                                                             *)
(***************************************************************************)
AsciiLetters == {"a", "b", "c", "d", "e", "f", "g", "h", "i", "j", "k", "l", "m", "n", "o", "p",
                 "q", "r", "s", "t", "u", "v", "w", "x", "y", "z", "A", "C", "E", "I", "N", "O", "P", "R", "S", "D"}
AsciiDigits == {"0", "1", "2", "3", "4", "5", "6", "7", "8", "9"}
UnicodeAlnum == {"U+00E9", "U+00B2"}
Whitespace == {" ", "\t", "\n"}
HexChars == {"0", "1", "2", "3", "4", "5", "6", "7", "8", "9", "a", "b", "c", "d", "e", "f"}

\* str.isalnum() of one character: true of every Unicode letter and digit
isalnum(c) == c \in AsciiLetters \cup AsciiDigits \cup UnicodeAlnum

(***************************************************************************)
(* String helpers (str methods used by the program).                       *)
(***************************************************************************)
\* s.find(c): 0 when absent, else the 1-based index of the first occurrence
Find(s, c) ==
    IF \E i \in 1..Len(s) : s[i] = c
    THEN CHOOSE i \in 1..Len(s) : s[i] = c /\ \A j \in 1..(i - 1) : s[j] # c
    ELSE 0

\* s.rfind(c)
RFind(s, c) ==
    IF \E i \in 1..Len(s) : s[i] = c
    THEN CHOOSE i \in 1..Len(s) : s[i] = c /\ \A j \in (i + 1)..Len(s) : s[j] # c
    ELSE 0

Contains(s, c) == \E i \in 1..Len(s) : s[i] = c

\* s[a..b], empty when a > b
Slice(s, a, b) == IF a > b THEN <<>> ELSE SubSeq(s, a, b)

startswith(s, p) == Len(s) >= Len(p) /\ Slice(s, 1, Len(p)) = p

endswith(s, p) == Len(s) >= Len(p) /\ Slice(s, Len(s) - Len(p) + 1, Len(s)) = p

\* s.rstrip(chars)
rstrip(s, chars) ==
    LET keep == {i \in 1..Len(s) : s[i] \notin chars}
    IN  IF keep = {} THEN <<>>
        ELSE Slice(s, 1, CHOOSE i \in keep : \A j \in keep : j <= i)

\* s.lstrip(chars)
lstrip(s, chars) ==
    LET keep == {i \in 1..Len(s) : s[i] \notin chars}
    IN  IF keep = {} THEN <<>>
        ELSE Slice(s, CHOOSE i \in keep : \A j \in keep : i <= j, Len(s))

\* s.strip(): whitespace removed at both ends
strip(s) == lstrip(rstrip(s, Whitespace), Whitespace)

\* s.split("/")[-1]
LastSegment(s) == Slice(s, RFind(s, "/") + 1, Len(s))

\* s with every character of chars removed
Remove(s, chars) == SelectSeq(s, LAMBDA c : c \notin chars)

(***************************************************************************)
(* urllib.parse.urlparse, as called at lines 14 and 52.                    *)
(***************************************************************************)
SchemeChars == AsciiLetters \cup AsciiDigits \cup {"+", "-", "."}
UsesParams == {<<>>, <<"h", "t", "t", "p">>}

\* scheme split: url[:i] when it is a valid scheme, else no scheme
SplitScheme(u) ==
    LET i == Find(u, ":")
    IN  IF i > 1 /\ u[1] \in AsciiLetters /\ \A k \in 1..(i - 1) : u[k] \in SchemeChars
        THEN [scheme |-> Slice(u, 1, i - 1), rest |-> Slice(u, i + 1, Len(u))]
        ELSE [scheme |-> <<>>, rest |-> u]

\* _splitnetloc(url, 2): the netloc runs to the first of "/", "?", "#"
SplitNetloc(r) ==
    IF startswith(r, <<"/", "/">>)
    THEN LET stops == {i \in 3..Len(r) : r[i] \in {"/", "?", "#"}}
             e == IF stops = {} THEN Len(r) + 1
                  ELSE CHOOSE i \in stops : \A j \in stops : i <= j
         IN  [netloc |-> Slice(r, 3, e - 1), rest |-> Slice(r, e, Len(r))]
    ELSE [netloc |-> <<>>, rest |-> r]

\* url.split(c, 1)
SplitAt(s, c) ==
    LET i == Find(s, c)
    IN  IF i = 0 THEN [head |-> s, tail |-> <<>>]
        ELSE [head |-> Slice(s, 1, i - 1), tail |-> Slice(s, i + 1, Len(s))]

\* _splitparams(url): the ";" is searched in the last path segment only
SplitParams(p) ==
    LET from == RFind(p, "/")
        semis == {i \in (from + 1)..Len(p) : p[i] = ";"}
    IN  IF semis = {} THEN [head |-> p, tail |-> <<>>]
        ELSE LET i == CHOOSE k \in semis : \A j \in semis : k <= j
             IN  [head |-> Slice(p, 1, i - 1), tail |-> Slice(p, i + 1, Len(p))]

\* urlparse(url): ok = FALSE stands for the ValueError("Invalid IPv6 URL")
urlparse(url) ==
    LET u0 == Remove(lstrip(url, Whitespace), {"\t", "\n"})
        s == SplitScheme(u0)
        n == SplitNetloc(s.rest)
        f == SplitAt(n.rest, "#")
        q == SplitAt(f.head, "?")
        p == IF s.scheme \in UsesParams THEN SplitParams(q.head)
             ELSE [head |-> q.head, tail |-> <<>>]
        bad == Contains(n.netloc, "[") # Contains(n.netloc, "]")
    IN  [ok |-> ~bad, scheme |-> s.scheme, netloc |-> n.netloc, path |-> p.head,
         params |-> p.tail, query |-> q.tail, fragment |-> f.tail]

(***************************************************************************)
(* hashlib.sha1(url.encode()).hexdigest()[:10]: a deterministic digest of  *)
(* the whole string, ten hexadecimal characters long.                      *)
(***************************************************************************)
HexDigits == <<"0", "1", "2", "3", "4", "5", "6", "7", "8", "9", "a", "b", "c", "d", "e", "f">>

CharCodes == <<":", "/", ".", "?", "#", ";", "[", "]", "$", "-", "_", " ", "\t", "\n",
               "a", "b", "h", "j", "m", "o", "p", "r", "s", "t", "u", "v", "x", "z",
               "0", "1", "2", "U+00E9", "U+00B2">>

Ord(c) == IF Contains(CharCodes, c) THEN Find(CharCodes, c) ELSE 0

RECURSIVE Mix(_, _, _)
Mix(s, i, k) ==
    IF i > Len(s) THEN k
    ELSE Mix(s, i + 1, (k * 31 + Ord(s[i]) * (i + k)) % 4093)

sha1_hexdigest_10(s) == [k \in 1..10 |-> HexDigits[(Mix(s, 1, k) % 16) + 1]]

(***************************************************************************)
(* filename_from_url (lines 12-20).                                        *)
(***************************************************************************)
JsSuffix == <<".", "j", "s">>
MjsSuffix == <<".", "m", "j", "s">>

\* line 20
sanitize(name) ==
    [i \in 1..Len(name) |-> IF isalnum(name[i]) \/ name[i] \in {"-", "_", "."} THEN name[i] ELSE "_"]

filename_from_url(url) ==
    LET p == urlparse(url)
        name == LastSegment(rstrip(p.path, {"/"}))
    IN  IF name = <<>> \/ ~Contains(name, ".")
        THEN sha1_hexdigest_10(url)
             \o (IF endswith(url, JsSuffix) \/ endswith(url, MjsSuffix) THEN JsSuffix ELSE <<>>)
        ELSE sanitize(name)

(***************************************************************************)
(* Paths: os.path.join, os.path.dirname, and the resolution of a path      *)
(* string by the operating system into components below the cwd.           *)
(***************************************************************************)
output_dir == <<"o", "u", "t", "p", "u", "t">>
JS == <<"j", "s">>
REPORT_TXT == <<"r", "e", "p", "o", "r", "t", ".", "t", "x", "t">>
OUTPUT_TAR_GZ == <<"o", "u", "t", "p", "u", "t", ".", "t", "a", "r", ".", "g", "z">>
Dot == <<".">>
DotDot == <<".", ".">>

\* os.path.join(a, b)
join(a, b) ==
    IF startswith(b, <<"/">>) THEN b
    ELSE IF a = <<>> \/ a[Len(a)] = "/" THEN a \o b
    ELSE a \o <<"/">> \o b

\* os.path.dirname(p)
dirname(p) ==
    LET head == Slice(p, 1, RFind(p, "/"))
    IN  IF head # <<>> /\ \E i \in 1..Len(head) : head[i] # "/"
        THEN rstrip(head, {"/"}) ELSE head

\* s.split("/")
RECURSIVE Split(_)
Split(s) ==
    LET i == Find(s, "/")
    IN  IF i = 0 THEN <<s>>
        ELSE <<Slice(s, 1, i - 1)>> \o Split(Slice(s, i + 1, Len(s)))

RECURSIVE ResolveC(_, _)
ResolveC(comps, stack) ==
    IF comps = <<>> THEN stack
    ELSE LET c == Head(comps)
         IN  IF c = <<>> \/ c = Dot THEN ResolveC(Tail(comps), stack)
             ELSE IF c = DotDot /\ stack # <<>> /\ stack[Len(stack)] # DotDot
                  THEN ResolveC(Tail(comps), Slice(stack, 1, Len(stack) - 1))
             ELSE ResolveC(Tail(comps), Append(stack, c))

\* the location a relative path string names: its components below the cwd,
\* "." dropped and ".." applied (a leading ".." is above the cwd)
Resolve(p) == ResolveC(Split(p), <<>>)

IsUnder(r, d) == Len(r) > Len(d) /\ Slice(r, 1, Len(d)) = d

InsideOutput(r) == r = <<output_dir>> \/ IsUnder(r, <<output_dir>>)

report_path == join(output_dir, REPORT_TXT)
tar_path == join(output_dir, OUTPUT_TAR_GZ)

Put(F, k, v) == [x \in DOMAIN F \cup {k} |-> IF x = k THEN v ELSE F[x]]

(***************************************************************************)
(* The filesystem calls of the program.                                    *)
(***************************************************************************)
\* the cwd and its ancestors exist
IsDir(D, r) == r = <<>> \/ r \in D \/ (r # <<>> /\ r[1] = DotDot)

\* os.makedirs(name, exist_ok=True): creates the missing directories from the
\* outermost one on; raises when a regular file is in the way, or, with
\* fault, at the first directory it has to create (permissions, full disk)
makedirs(name, D, F, fault) ==
    LET c == Split(name)
        t == [k \in 1..Len(c) |-> ResolveC(Slice(c, 1, k), <<>>)]
        missing == {k \in 1..Len(t) : ~IsDir(D, t[k])}
        blocked == {k \in missing : t[k] \in DOMAIN F}
    IN  IF missing = {} THEN [ok |-> TRUE, dirs |-> D]
        ELSE IF fault THEN [ok |-> FALSE, dirs |-> D]
        ELSE IF blocked # {}
             THEN [ok |-> FALSE,
                   dirs |-> D \cup {t[k] : k \in {m \in missing : \A b \in blocked : m < b}}]
        ELSE [ok |-> TRUE, dirs |-> D \cup {t[k] : k \in missing}]

(***************************************************************************)
(* download_file (lines 22-32).  o is what the call meets: the exception   *)
(* or response of session.get, and a fault of the filesystem if any.       *)
(***************************************************************************)
NoBody == "-"
Truncated == "truncated"
Bodies == {"B1", "B2"}

\* str(e) of the exceptions
ErrConnection == <<"C", "o", "n", "n">>
ErrHTTP(status) == IF status < 500 THEN <<"4", "x", "x">> ELSE <<"5", "x", "x">>
ErrMakedirs == <<"E", "A", "C", "C", "E", "S">>
ErrIsADirectory == <<"E", "I", "S", "D", "I", "R">>
ErrWrite == <<"E", "N", "O", "S", "P", "C">>

\* an except clause that names the exceptions of requests only
except_RequestException(raised) == raised \in {"get", "raise_for_status"}

\* line 31: except Exception catches whatever the try block raises
except_Exception(raised) == raised \in {"get", "raise_for_status", "makedirs", "open", "write"}

\* a status check that knows the client errors only
raise_for_status_4xx(status) == 400 <= status /\ status < 500

\* Response.raise_for_status(): HTTPError for 4xx and 5xx
raise_for_status(status) == 400 <= status /\ status < 600

download_file(url, dest, o, D, F) ==
    IF o.kind = "transport"
    THEN [success |-> FALSE, info |-> ErrConnection, raised |-> "get", dirs |-> D, files |-> F]
    ELSE IF raise_for_status(o.status)
    THEN [success |-> FALSE, info |-> ErrHTTP(o.status), raised |-> "raise_for_status",
          dirs |-> D, files |-> F]
    ELSE LET m == makedirs(dirname(dest), D, F, o.fault = "makedirs")
             r == Resolve(dest)
         IN  IF ~m.ok
             THEN [success |-> FALSE, info |-> ErrMakedirs, raised |-> "makedirs",
                   dirs |-> m.dirs, files |-> F]
             ELSE IF IsDir(m.dirs, r)
             THEN [success |-> FALSE, info |-> ErrIsADirectory, raised |-> "open",
                   dirs |-> m.dirs, files |-> F]
             ELSE IF o.fault = "write"
             THEN [success |-> FALSE, info |-> ErrWrite, raised |-> "write",
                   dirs |-> m.dirs, files |-> Put(F, r, <<"body", Truncated>>)]
             ELSE [success |-> TRUE, info |-> dest, raised |-> "none",
                   dirs |-> m.dirs, files |-> Put(F, r, <<"body", o.body>>)]

(***************************************************************************)
(* Inputs of a run.                                                        *)
(***************************************************************************)
HTTP == <<"h", "t", "t", "p", ":", "/", "/">>
U_app == HTTP \o <<"a", "/", "x", ".", "j", "s">>
U_app_query == U_app \o <<"?", "v">>
U_host_dotdot == HTTP \o <<".", ".", "/", "x", ".", "j", "s">>
U_seg_dotdot == HTTP \o <<"a", "/", ".", ".">>
U_bad_ipv6 == HTTP \o <<"[">>

\* the lines a file holds, as iterating the file yields them
NL == <<"\n">>
LineSet ==
    { <<" ">> \o NL, U_app \o NL, <<" ">> \o U_app_query \o <<"\t">> \o NL,
      U_host_dotdot \o NL, U_seg_dotdot \o NL, U_bad_ipv6 \o NL }

Files == UNION {[1..n -> LineSet] : n \in 0..MaxLines}

\* what one download can meet
DownloadScenarios ==
    { [kind |-> "transport", status |-> 0, body |-> NoBody, fault |-> "none"],
      [kind |-> "response", status |-> 404, body |-> "B1", fault |-> "none"],
      [kind |-> "response", status |-> 500, body |-> "B1", fault |-> "none"],
      [kind |-> "response", status |-> 103, body |-> "B1", fault |-> "none"],
      [kind |-> "response", status |-> 304, body |-> "B1", fault |-> "none"],
      [kind |-> "response", status |-> 200, body |-> "B1", fault |-> "none"],
      [kind |-> "response", status |-> 200, body |-> "B2", fault |-> "none"],
      [kind |-> "response", status |-> 200, body |-> "B1", fault |-> "makedirs"],
      [kind |-> "response", status |-> 200, body |-> "B1", fault |-> "write"] }

\* the filesystem below the cwd before the run: empty, left by an earlier run,
\* or with a regular file named output
P_old_js == <<output_dir, <<"a">>, JS, <<"x", ".", "j", "s">>>>
P_old_other == <<output_dir, <<"o", "l", "d">>>>
P_report == Resolve(report_path)
P_tar == Resolve(tar_path)

InitialFilesystems ==
    { [dirs |-> {}, files |-> <<>>],
      [dirs |-> {<<output_dir>>, <<output_dir, <<"a">>>>, <<output_dir, <<"a">>, JS>>},
       files |-> [p \in {P_old_js, P_old_other, P_report, P_tar} |->
                    IF p = P_report THEN <<"report", <<>>>>
                    ELSE IF p = P_tar THEN <<"tar", <<>>>>
                    ELSE <<"body", "B0">>]],
      [dirs |-> {}, files |-> [p \in {<<output_dir>>} |-> <<"body", "B0">>]] }

(***************************************************************************)
(* The program.                                                            *)
(***************************************************************************)
Init ==
    /\ pc = "entry"
    /\ arg \in {"missing", "notfile", "file"}
    /\ lines \in (IF arg = "file" THEN Files ELSE {<<>>})
    /\ urls = <<>>
    /\ idx = 0
    /\ results = <<>>
    /\ outcomes = <<>>
    /\ fs0 \in InitialFilesystems
    /\ dirs = fs0.dirs
    /\ files = fs0.files
    /\ fn_url = <<>>
    /\ fn_out = <<>>

\* lines 84-88
Entry ==
    /\ pc = "entry"
    /\ pc' = IF arg = "missing" THEN "exit1" ELSE "main"
    /\ UNCHANGED <<arg, lines, urls, idx, results, outcomes, dirs, files, fs0, fn_url, fn_out>>

\* lines 35-36
MakeOutputDir ==
    /\ pc = "main"
    /\ LET m == makedirs(output_dir, dirs, files, FALSE)
       IN  /\ dirs' = m.dirs
           /\ pc' = IF m.ok THEN "read" ELSE "raise_makedirs"
    /\ UNCHANGED <<arg, lines, urls, idx, results, outcomes, files, fs0, fn_url, fn_out>>

\* the comprehension of line 42 without its "if line.strip()"
ReadLines_unfiltered(ls) == [i \in 1..Len(ls) |-> strip(ls[i])]

\* line 42
ReadLines(ls) == SelectSeq([i \in 1..Len(ls) |-> strip(ls[i])], LAMBDA l : l # <<>>)

\* lines 40-48
ReadUrls ==
    /\ pc = "read"
    /\ IF arg = "file"
       THEN /\ urls' = ReadLines(lines)
            /\ idx' = 1
            /\ pc' = "loop"
       ELSE /\ pc' = "exit1"
            /\ UNCHANGED <<urls, idx>>
    /\ UNCHANGED <<arg, lines, results, outcomes, dirs, files, fs0, fn_url, fn_out>>

\* lines 57-60 with the else branch taken always
MakeResult_no_else(url, host, d) ==
    [url |-> url, host |-> host,
     downloaded |-> IF d.success THEN <<d.info>> ELSE <<>>,
     errors |-> <<d.info>>]

\* lines 51, 57-61
MakeResult(url, host, d) ==
    [url |-> url, host |-> host,
     downloaded |-> IF d.success THEN <<d.info>> ELSE <<>>,
     errors |-> IF d.success THEN <<>> ELSE <<d.info>>]

\* line 56
DestOf(url) == join(join(join(output_dir, urlparse(url).netloc), JS), filename_from_url(url))

\* urlparse and the destination of every URL a file can hold, computed once
AllUrls == {strip(l) : l \in LineSet} \cup LineSet
Parsed == [u \in AllUrls |-> urlparse(u)]
Dest == [u \in AllUrls |-> DestOf(u)]

\* lines 50-62, one iteration
ProcessUrl ==
    /\ pc = "loop"
    /\ idx <= Len(urls)
    /\ LET url == urls[idx]
           parsed == Parsed[url]
       IN  IF ~parsed.ok
           THEN /\ pc' = "raise_urlparse"
                /\ UNCHANGED <<idx, results, outcomes, dirs, files>>
           ELSE \E o \in DownloadScenarios :
                  LET d == download_file(url, Dest[url], o, dirs, files)
                      caught == d.raised = "none" \/ except_Exception(d.raised)
                  IN  /\ outcomes' = Append(outcomes,
                             [kind |-> o.kind, status |-> o.status, raised |-> d.raised,
                              body |-> IF d.success THEN o.body ELSE NoBody])
                      /\ dirs' = d.dirs
                      /\ files' = d.files
                      /\ results' = IF caught
                                    THEN Append(results, MakeResult(url, parsed.netloc, d))
                                    ELSE results
                      /\ idx' = IF caught THEN idx + 1 ELSE idx
                      /\ pc' = IF caught THEN "loop" ELSE "raise_download"
    /\ UNCHANGED <<arg, lines, urls, fs0, fn_url, fn_out>>

\* lines 67-75 with the two counts exchanged
Block_counts_swapped(r) ==
    <<<<"URL: ", r.url>>, <<"HOST: ", r.host>>, <<"Downloaded: ", Len(r.errors)>>>>
    \o [i \in 1..Len(r.downloaded) |-> <<"  - ", r.downloaded[i]>>]
    \o <<<<"Errors: ", Len(r.downloaded)>>>>
    \o [i \in 1..Len(r.errors) |-> <<"  - ", r.errors[i]>>]
    \o <<<<"">>>>

\* lines 67-75
Block(r) ==
    <<<<"URL: ", r.url>>, <<"HOST: ", r.host>>, <<"Downloaded: ", Len(r.downloaded)>>>>
    \o [i \in 1..Len(r.downloaded) |-> <<"  - ", r.downloaded[i]>>]
    \o <<<<"Errors: ", Len(r.errors)>>>>
    \o [i \in 1..Len(r.errors) |-> <<"  - ", r.errors[i]>>]
    \o <<<<"">>>>

RECURSIVE ReportLines(_)
ReportLines(rs) == IF rs = <<>> THEN <<>> ELSE Block(Head(rs)) \o ReportLines(Tail(rs))

\* lines 64-75; an OSError of open or write is not caught
WriteReport ==
    /\ pc = "loop"
    /\ idx > Len(urls)
    /\ \/ /\ files' = Put(files, P_report, <<"report", ReportLines(results)>>)
          /\ pc' = "archive"
       \/ /\ files' = Put(files, P_report, <<"report", <<>>>>)
          /\ pc' = "raise_report"
    /\ UNCHANGED <<arg, lines, urls, idx, results, outcomes, dirs, fs0, fn_url, fn_out>>

\* an archiver that does not skip its own file
ArchiveMembers_with_itself(D, F) ==
    [dirs |-> {d \in D : InsideOutput(d)},
     files |-> [p \in {q \in DOMAIN F : InsideOutput(q)} |-> F[p]]]

\* tarfile.open has created the archive file; tar.add(output_dir) then adds
\* every directory and file below output_dir, except the archive being
\* written (TarFile.add skips its own name)
ArchiveMembers(D, F) ==
    [dirs |-> {d \in D : InsideOutput(d)},
     files |-> [p \in {q \in DOMAIN F : InsideOutput(q) /\ q # P_tar} |-> F[p]]]

\* lines 77-82; an error of tarfile is not caught
Archive ==
    /\ pc = "archive"
    /\ \/ /\ files' = Put(files, P_tar,
                            <<"tar", ArchiveMembers(dirs, Put(files, P_tar, <<"tar", <<>>>>))>>)
          /\ pc' = "done"
       \/ /\ files' = Put(files, P_tar, <<"tar", <<>>>>)
          /\ pc' = "raise_tarfile"
    /\ UNCHANGED <<arg, lines, urls, idx, results, outcomes, dirs, fs0, fn_url, fn_out>>

Next == Entry \/ MakeOutputDir \/ ReadUrls \/ ProcessUrl \/ WriteReport \/ Archive

Spec == Init /\ [][Next]_vars

(***************************************************************************)
(* filename_from_url on its own: the call is applied to one URL drawn from *)
(* FnInputs.                                                               *)
(***************************************************************************)
FnHeads ==
    { <<>>, <<"h", "t", "t", "p", ":">>, HTTP \o <<"a">>, HTTP \o <<"[">>, <<"/", "/", "a">> }
FnChars == {"/", ".", "j", "$", "U+00E9"}
FnMiddles == UNION {[1..n -> FnChars] : n \in 0..MaxSegLen}
FnTails ==
    { <<>>, <<"/">>, <<"?", ".", "j", "s">>, <<".", "m", "j", "s">>, <<"#", "x">>,
      <<";", "p">> }
FnInputs == {h \o m \o t : h \in FnHeads, m \in FnMiddles, t \in FnTails}

FnInit ==
    /\ pc = "fn"
    /\ arg = "missing"
    /\ lines = <<>>
    /\ urls = <<>>
    /\ idx = 0
    /\ results = <<>>
    /\ outcomes = <<>>
    /\ fs0 = [dirs |-> {}, files |-> <<>>]
    /\ dirs = {}
    /\ files = <<>>
    /\ fn_url \in FnInputs
    /\ fn_out = [state |-> "pending", value |-> <<>>]

FnApply ==
    /\ pc = "fn"
    /\ pc' = "fn_done"
    /\ fn_out' = IF urlparse(fn_url).ok
                 THEN [state |-> "returned", value |-> filename_from_url(fn_url)]
                 ELSE [state |-> "raised", value |-> <<>>]
    /\ UNCHANGED <<arg, lines, urls, idx, results, outcomes, dirs, files, fs0, fn_url>>

FnSpec == FnInit /\ [][FnApply]_vars

(***************************************************************************)
(* Properties.                                                             *)
(***************************************************************************)
LoopFinished ==
    \/ pc \in {"archive", "done", "raise_report", "raise_tarfile"}
    \/ pc = "loop" /\ idx > Len(urls)

ReportWritten == pc \in {"archive", "done", "raise_tarfile"}

NonBlank(ls) == {i \in 1..Len(ls) : \E k \in 1..Len(ls[i]) : ls[i][k] \notin Whitespace}

Trimmed(l) ==
    LET nw == {k \in 1..Len(l) : l[k] \notin Whitespace}
    IN  SubSeq(l, CHOOSE a \in nw : \A b \in nw : a <= b, CHOOSE a \in nw : \A b \in nw : b <= a)

NthNonBlank(ls, j) ==
    CHOOSE i \in NonBlank(ls) : Cardinality({k \in NonBlank(ls) : k <= i}) = j

FsRaised == {"makedirs", "open", "write"}

\* C1: when the loop has finished, results holds one record per line that is
\* not blank after trimming, in input order, duplicates kept, each url the
\* trimmed line; and after a failed download the program is still looping,
\* has finished the loop, or stopped at a later URL that urlparse rejects.
C1_OneRecordPerLine ==
    /\ LoopFinished =>
         /\ Len(results) = Cardinality(NonBlank(lines))
         /\ \A j \in 1..Len(results) : results[j].url = Trimmed(lines[NthNonBlank(lines, j)])
    /\ \A j \in 1..Len(results) :
         results[j].errors # <<>> =>
           \/ pc = "loop"
           \/ LoopFinished
           \/ pc = "raise_urlparse" /\ idx > j /\ ~urlparse(urls[idx]).ok

\* C1 witness: a finished run over the same URL twice, the first download
\* failed and the second succeeded.
C1_Witness ==
    /\ pc = "done"
    /\ Len(results) = 2
    /\ results[1].url = results[2].url
    /\ results[1].errors # <<>>
    /\ results[2].downloaded # <<>>

\* C2: every record appended to results has exactly one entry in downloaded
\* and errors together.
C2_ExactlyOne ==
    \A j \in 1..Len(results) : Len(results[j].downloaded) + Len(results[j].errors) = 1

\* C2 witness: results holds a record of a success and a record of a failure.
C2_Witness ==
    \E i, j \in 1..Len(results) :
      /\ Len(results[i].downloaded) = 1
      /\ Len(results[j].errors) = 1

IsStep ==
    /\ pc = "loop"
    /\ pc' = "loop"
    /\ Len(outcomes') = Len(outcomes) + 1
    /\ Len(results') = Len(results) + 1

\* C3 as stated: a download that met a transport error or a status outside
\* 2xx has an error and no path in its record, and only a 2xx one has a path.
C3_Original ==
    \A j \in 1..Len(results) :
      /\ (outcomes[j].kind = "transport" \/ outcomes[j].status < 200 \/ outcomes[j].status >= 300)
           => results[j].downloaded = <<>> /\ Len(results[j].errors) = 1
      /\ results[j].downloaded # <<>> => (200 <= outcomes[j].status /\ outcomes[j].status < 300)

\* C3 amended: a download that met a transport error or a 4xx or 5xx status
\* returns (False, error) and leaves the filesystem as it was; a download
\* returns (True, dest) exactly when it met a response of another status
\* (1xx, 2xx, 3xx) and no error of the filesystem, and dest then holds the
\* whole body of the response.
C3_Amended ==
    [][IsStep =>
        LET o == outcomes'[Len(outcomes')]
            r == results'[Len(results')]
            failed == o.kind = "transport" \/ (400 <= o.status /\ o.status < 600)
        IN  /\ failed => /\ r.downloaded = <<>>
                         /\ Len(r.errors) = 1
                         /\ dirs' = dirs
                         /\ files' = files
            /\ r.downloaded # <<>> <=> (~failed /\ o.raised \notin FsRaised)
            /\ r.downloaded # <<>> =>
                 /\ r.downloaded = <<Dest[r.url]>>
                 /\ r.errors = <<>>
                 /\ Resolve(Dest[r.url]) \in DOMAIN files'
                 /\ files'[Resolve(Dest[r.url])] = <<"body", o.body>>]_vars

\* C3 witness: one download met a 304 and wrote its file, another met a 500
\* and recorded an error.
C3_Witness ==
    \E i, j \in 1..Len(results) :
      /\ outcomes[i].status = 304
      /\ results[i].downloaded # <<>>
      /\ outcomes[j].status = 500
      /\ results[j].errors # <<>>

\* C4 as stated: a filesystem error during a download is not caught, so the
\* URL gets no record.
C4_Original ==
    \A j \in 1..Len(outcomes) : outcomes[j].raised \in FsRaised => Len(results) < j

\* C4 amended: a filesystem error raised by makedirs, open or write during a
\* download is caught: the URL gets a record with that one error and no
\* path, and the process is not terminated by it.
C4_Amended ==
    /\ pc # "raise_download"
    /\ \A j \in 1..Len(outcomes) :
         outcomes[j].raised \in FsRaised =>
           /\ Len(results) >= j
           /\ results[j].downloaded = <<>>
           /\ results[j].errors \in {<<ErrMakedirs>>, <<ErrIsADirectory>>, <<ErrWrite>>}

\* C4 witness: a download met a filesystem error, a later URL was processed
\* and the run finished with its archive.
C4_Witness ==
    /\ pc = "done"
    /\ Len(outcomes) = 2
    /\ outcomes[1].raised \in FsRaised
    /\ Len(results) = 2

\* C5: when the process exits with status 1 the filesystem is what it was
\* at the start and no request has been issued.
C5_ExitLeavesNoTrace ==
    pc = "exit1" => /\ dirs = fs0.dirs
                    /\ files = fs0.files
                    /\ outcomes = <<>>

ClaimChars == AsciiLetters \cup AsciiDigits \cup {"-", "_", "."}

\* C6: filename_from_url returns a name for every URL, and the name has
\* characters of [A-Za-z0-9-_.] only; it is the last path segment with every
\* other character replaced by "_" when that segment holds a ".", and else
\* ten hexadecimal characters, followed by ".js" exactly when the URL ends in
\* ".js" or ".mjs".
C6_SafeName ==
    fn_out.state # "pending" =>
      LET seg == LastSegment(rstrip(urlparse(fn_url).path, {"/"}))
          v == fn_out.value
          js == endswith(fn_url, JsSuffix) \/ endswith(fn_url, MjsSuffix)
      IN  /\ fn_out.state = "returned"
          /\ \A k \in 1..Len(v) : v[k] \in ClaimChars
          /\ Contains(seg, ".") =>
               v = [k \in 1..Len(seg) |-> IF seg[k] \in ClaimChars THEN seg[k] ELSE "_"]
          /\ ~Contains(seg, ".") =>
               /\ Len(v) = 10 + (IF js THEN 3 ELSE 0)
               /\ \A k \in 1..10 : v[k] \in HexChars
               /\ js => Slice(v, 11, 13) = JsSuffix

LineIs(l, tag, v) == Len(l) = 2 /\ l[1] = tag /\ l[2] = v

\* C7: the report holds one block per record, in order: the URL, the netloc
\* of the URL, "Downloaded: n" followed by the n paths of the record,
\* "Errors: n" followed by its n errors, and a blank line.
C7_ReportBlocks ==
    ReportWritten =>
      /\ P_report \in DOMAIN files
      /\ files[P_report][1] = "report"
      /\ LET L == files[P_report][2]
         IN  /\ Len(L) = 6 * Len(results)
             /\ \A j \in 1..Len(results) :
                  LET s == 6 * (j - 1)
                      r == results[j]
                  IN  /\ LineIs(L[s + 1], "URL: ", r.url)
                      /\ LineIs(L[s + 2], "HOST: ", Parsed[r.url].netloc)
                      /\ IF r.downloaded # <<>>
                         THEN /\ LineIs(L[s + 3], "Downloaded: ", 1)
                              /\ LineIs(L[s + 4], "  - ", r.downloaded[1])
                              /\ LineIs(L[s + 5], "Errors: ", 0)
                         ELSE /\ LineIs(L[s + 3], "Downloaded: ", 0)
                              /\ LineIs(L[s + 4], "Errors: ", 1)
                              /\ LineIs(L[s + 5], "  - ", r.errors[1])
                      /\ L[s + 6] = <<"">>

\* C7 witness: a report was written for a success followed by a failure.
C7_Witness ==
    /\ pc = "done"
    /\ Len(results) = 2
    /\ results[1].downloaded # <<>>
    /\ results[2].errors # <<>>

\* C8: the report is written only after every URL has its record, the
\* archive only after the report is complete; the finished archive holds
\* report.txt and every file below the output directory, those of earlier
\* runs included, as they are on disk, and does not hold output.tar.gz.
C8_Order ==
    /\ pc \in {"archive", "done", "raise_report", "raise_tarfile"} => Len(results) = Len(urls)
    /\ pc \in {"done", "raise_tarfile"} =>
         /\ P_report \in DOMAIN files
         /\ Len(files[P_report][2]) = 6 * Len(urls)
    /\ pc = "done" =>
         LET m == files[P_tar][2]
         IN  /\ P_report \in DOMAIN m.files
             /\ P_tar \notin DOMAIN m.files
             /\ \A p \in DOMAIN files :
                  (InsideOutput(p) /\ p # P_tar) => (p \in DOMAIN m.files /\ m.files[p] = files[p])
             /\ \A p \in DOMAIN m.files : p \in DOMAIN files
             /\ \A p \in DOMAIN fs0.files :
                  (InsideOutput(p) /\ p # P_tar) => p \in DOMAIN m.files

\* C8 witness: a finished archive over a directory that held files of an
\* earlier run, a stale archive among them, and a file downloaded in this run.
C8_Witness ==
    /\ pc = "done"
    /\ P_tar \in DOMAIN fs0.files
    /\ P_old_other \in DOMAIN files[P_tar][2].files
    /\ \E j \in 1..Len(results) : results[j].downloaded # <<>>

\* C9: every directory and file the run creates or changes lies inside the
\* output directory.
C9_WritesStayInside ==
    /\ \A d \in dirs \ fs0.dirs : InsideOutput(d)
    /\ \A p \in DOMAIN files :
         (p \notin DOMAIN fs0.files \/ files[p] # fs0.files[p]) => InsideOutput(p)

\* C10: when the report is written, the file at every path listed in a
\* record's downloaded holds the body received for that record's URL.
C10_FileHoldsBody ==
    ReportWritten =>
      \A j \in 1..Len(results) :
        results[j].downloaded # <<>> =>
          files[Resolve(results[j].downloaded[1])] = <<"body", outcomes[j].body>>

====
